---------------------------- MODULE Spec2Model ----------------------------
(***************************************************************************)
(* A model of benchmarklib-rs (src/src/benching.rs): BenchVec, the series  *)
(* of measured durations with its statistics, DurationDifference, and the  *)
(* Bencher with its fixed and adaptive benchmark loops, its history of     *)
(* finished series and its optional buffered file writer.                  *)
(*                                                                         *)
(* A Duration is the natural number of its nanoseconds.  A bench call is   *)
(* a sequence of steps (start, one step per loop iteration, the loop exit, *)
(* the report, the record, the push); Bencher's methods take &mut self, so *)
(* no other operation runs while a bench call is in progress.              *)
(***************************************************************************)
EXTENDS Integers, Sequences, FiniteSets, TLC

VARIABLES
    measurements,         \* Bencher.measurements: the finished series, oldest first
    iterations,           \* Bencher.iterations (0 selects the adaptive loop)
    max_auto_iterations,  \* Bencher.max_auto_iterations
    bench_duration,       \* Bencher.bench_duration, the calibration offset
    writer,               \* Bencher.writer and the file behind it
    pc,                   \* where the running bench call is; "idle" between calls
    name,                 \* bench's argument `name`
    durations,            \* bench's local `durations`
    count,                \* bench's local `count` (the for loop's index in fixed mode)
    raws,                 \* what start.elapsed() returned after each func() call
    op,                   \* the latest method called
    console,              \* the lines the latest call printed to stdout
    ret,                  \* what the latest call returned
    avgCalls,             \* how often the latest call evaluated BenchVec::average
    completed             \* the number of bench calls that returned

vars == <<measurements, iterations, max_auto_iterations, bench_duration, writer,
          pc, name, durations, count, raws, op, console, ret, avgCalls, completed>>

bencher == <<measurements, iterations, max_auto_iterations, bench_duration, writer>>
locals == <<name, durations, count, raws>>

----------------------------------------------------------------------------
(* Bounds of the model and constants of the program *)

\* Spec: set_iterations is called with 0..MaxIterations
MaxIterations == 1
\* Spec: set_max_iterations is called with 0..MaxCap
MaxCap == 1
\* Spec: bench is called while the history holds fewer than MaxHistory series
MaxHistory == 2
\* SpecBench: set_iterations is called with 0..BenchMaxIterations
BenchMaxIterations == 3
\* SpecBench: set_max_iterations is called with 0..BenchMaxCap
BenchMaxCap == 4
\* Bencher::new: iterations: 100
DefaultIterations == 100
\* Bencher::new: max_auto_iterations: 10000
DefaultMaxAutoIterations == 10000
\* calculate_bench_duration: for _ in 0..1000
CalibrationRuns == 1000
\* it_benches_automatically: set_max_iterations(1000)
ConstantCap == 1000

\* Spec: the raw elapsed times a measurement can give, in nanoseconds
RawSet == {20, 50000}
\* Spec: the elapsed time of the empty measurement of the calibration loop
CalibrationRawSet == {20}
\* SpecBench: raw elapsed times below, at and above the calibration offset
BenchRawSet == {10, 20, 50000}
\* SpecBench: a fast and a slow clock in the calibration loop
BenchCalibrationRawSet == {20, 60000}
\* SpecConstant: the time each call of the closure takes
ConstantRawSet == {40, 9000, 50000}
\* SpecDefault: the time each call of the closure takes
DefaultRawSet == {50000}
\* SpecCompare: the series compared hold up to MaxSeriesLen durations
MaxSeriesLen == 2
\* SpecCompare: the durations in the series compared, in nanoseconds
CompareValues == {10, 15, 21}
\* the names bench is called with
Names == {"lol"}

----------------------------------------------------------------------------
(* BenchVec *)

\* the reduction of par_iter().sum() over s[lo..hi], by halves
RECURSIVE SumRange(_, _, _)
SumRange(s, lo, hi) ==
    IF lo > hi THEN 0
    ELSE IF lo = hi THEN s[lo]
    ELSE LET mid == (lo + hi) \div 2
         IN  SumRange(s, lo, mid) + SumRange(s, mid + 1, hi)

\* BenchVec::sum: the exact sum of the stored durations
Sum(s) == SumRange(s, 1, Len(s))

\* BenchVec::average panics (Duration / 0u32) on the empty series (the cast
\* `len() as u32` changes no length below 2^32)
AveragePanics(s) == Len(s) = 0

\* Average with the quotient rounded up
AverageRoundedUp(s) == (Sum(s) + Len(s) - 1) \div Len(s)

\* BenchVec::average where it does not panic: Duration / u32 truncates
Average(s) == Sum(s) \div Len(s)

\* BenchVec::standard_deviation: sqrt(sum_ns / (len - 1)) in f64, kept as the
\* exact fraction under the root (den = 0 gives inf or NaN, as f64 division does)
StandardDeviation(s) == [num |-> Sum(s), den |-> Len(s) - 1]

\* bench's test `standard_deviation() / average().as_nanos() as f64 < 0.01`.
\* len = 1: the quotient under the root is inf or NaN, and so is the result:
\* false.  average = 0: sd / 0.0 is inf or NaN: false.  Otherwise both sides are
\* positive and sqrt(num/den)/avg < 1/100 is num * 10000 < avg^2 * den.  With
\* avg = 100 * q + r that is 10000 * (num - den * q^2) < den * (200 * q * r + r^2),
\* which is evaluated in this form to stay within 32-bit integers.
CvBelowThreshold(s) ==
    LET sd == StandardDeviation(s)
        avg == Average(s)
        q == avg \div 100
        r == avg % 100
    IN  /\ sd.den > 0
        /\ avg > 0
        /\ sd.num - sd.den * q * q <= (sd.den * (200 * q * r + r * r) - 1) \div 10000

\* DurationDifference::new with >= for >: a tie counts as positive
DurationDifferenceNewAtLeast(left, right) ==
    LET left_avg == Average(left)
        right_avg == Average(right)
    IN  IF left_avg >= right_avg
        THEN [inner |-> left_avg - right_avg, positive |-> TRUE]
        ELSE [inner |-> right_avg - left_avg, positive |-> FALSE]

\* DurationDifference::new where neither average panics
DurationDifferenceNew(left, right) ==
    LET left_avg == Average(left)
        right_avg == Average(right)
    IN  IF left_avg > right_avg
        THEN [inner |-> left_avg - right_avg, positive |-> TRUE]
        ELSE [inner |-> right_avg - left_avg, positive |-> FALSE]

\* BenchVec::compare with the difference taken the other way round
BenchVecCompareReversed(self, other) ==
    LET avg1 == Average(self)
        avg2 == Average(other)
    IN  IF avg2 > avg1
        THEN [inner |-> avg2 - avg1, positive |-> TRUE]
        ELSE [inner |-> avg1 - avg2, positive |-> FALSE]

\* BenchVec::compare where neither average panics
BenchVecCompare(self, other) ==
    LET avg1 == Average(self)
        avg2 == Average(other)
    IN  IF avg1 > avg2
        THEN [inner |-> avg1 - avg2, positive |-> TRUE]
        ELSE [inner |-> avg2 - avg1, positive |-> FALSE]

\* Display for BenchVec where average does not panic: mean, stddev, percent
\* (the percent is a function of the first two and is not kept)
DisplayBenchVec(s) == <<"Result", Average(s), StandardDeviation(s)>>

\* Display for DurationDifference: the sign, then the magnitude
DisplayDifference(d) == <<"Difference", IF d.positive THEN "+" ELSE "-", d.inner>>

----------------------------------------------------------------------------
(* Bencher *)

\* calculate_bench_duration, for a clock whose empty measurement takes c each time
CalculateBenchDuration(c) == Average([i \in 1..CalibrationRuns |-> c])

\* BENCH_FILE_HEAD, which it_writes_into_files imports from benching: the
\* column-header line of the output file
BENCH_FILE_HEAD == <<"name", "mean", "stddev">>

\* writer: None
NoWriter == [attached |-> FALSE, buf |-> <<>>, file |-> <<>>, attachedAt |-> 0]

\* Bencher::new, the calibration loop measuring one of `calibration` each time
New(calibration) ==
    /\ measurements = <<>>
    /\ iterations = DefaultIterations
    /\ max_auto_iterations = DefaultMaxAutoIterations
    /\ bench_duration \in {CalculateBenchDuration(c) : c \in calibration}
    /\ writer = NoWriter
    /\ pc = "idle"
    /\ name = ""
    /\ durations = <<>>
    /\ count = 0
    /\ raws = <<>>
    /\ op = "new"
    /\ console = <<>>
    /\ ret = "self"
    /\ avgCalls = 1
    /\ completed = 0

\* Bencher::set_iterations
SetIterations(n) ==
    /\ pc = "idle"
    /\ iterations' = n
    /\ op' = "set_iterations"
    /\ console' = <<>>
    /\ ret' = "self"
    /\ avgCalls' = 0
    /\ UNCHANGED <<measurements, max_auto_iterations, bench_duration, writer, pc,
                   locals, completed>>

\* SetMaxIterations assigning the iteration count as well
SetMaxIterationsAndCount(n) ==
    /\ pc = "idle"
    /\ max_auto_iterations' = n
    /\ iterations' = n
    /\ op' = "set_max_iterations"
    /\ console' = <<>>
    /\ ret' = "self"
    /\ avgCalls' = 0
    /\ UNCHANGED <<measurements, bench_duration, writer, pc, locals, completed>>

\* Bencher::set_max_iterations
SetMaxIterations(n) ==
    /\ pc = "idle"
    /\ max_auto_iterations' = n
    /\ op' = "set_max_iterations"
    /\ console' = <<>>
    /\ ret' = "self"
    /\ avgCalls' = 0
    /\ UNCHANGED <<measurements, iterations, bench_duration, writer, pc, locals,
                   completed>>

\* Sample with the subtraction also taken at raw = bench_duration
SampleAtOrAbove(raw) == IF raw >= bench_duration THEN raw - bench_duration ELSE raw

\* the sample bench pushes for a raw elapsed time
Sample(raw) == IF raw > bench_duration THEN raw - bench_duration ELSE raw

\* Bencher::bench, entry: the fresh series, the printed name, the choice of the loop
BenchStart(n) ==
    /\ pc = "idle"
    /\ name' = n
    /\ durations' = <<>>
    /\ raws' = <<>>
    /\ count' = 0
    /\ op' = "bench"
    /\ console' = << <<"Name", n>> >>
    /\ ret' = "running"
    /\ avgCalls' = 0
    /\ pc' = IF iterations = 0 THEN "auto" ELSE "fixed"
    /\ UNCHANGED <<bencher, completed>>

\* StopsEarly with the comparison reversed and no test of count
StopsEarlyUnlessConverged(s, c) == ~CvBelowThreshold(s)

\* the break test of the adaptive loop, after the push
StopsEarly(s, c) == CvBelowThreshold(s) /\ c > 1

\* AutoIterate with the loop condition count <= max_auto_iterations
AutoIterateOneMore(raw) ==
    /\ pc = "auto"
    /\ count <= max_auto_iterations
    /\ raws' = Append(raws, raw)
    /\ durations' = Append(durations, Sample(raw))
    /\ avgCalls' = avgCalls + 1
    /\ IF StopsEarly(durations', count)
       THEN /\ count' = count
            /\ console' = Append(console, <<"After", count>>)
            /\ pc' = "report"
       ELSE /\ count' = count + 1
            /\ UNCHANGED <<console, pc>>
    /\ UNCHANGED <<bencher, name, op, ret, completed>>

\* Bencher::bench, one iteration of the adaptive loop
AutoIterate(raw) ==
    /\ pc = "auto"
    /\ count < max_auto_iterations
    /\ raws' = Append(raws, raw)
    /\ durations' = Append(durations, Sample(raw))
    /\ avgCalls' = avgCalls + 1
    /\ IF StopsEarly(durations', count)
       THEN /\ count' = count
            /\ console' = Append(console, <<"After", count>>)
            /\ pc' = "report"
       ELSE /\ count' = count + 1
            /\ UNCHANGED <<console, pc>>
    /\ UNCHANGED <<bencher, name, op, ret, completed>>

\* Bencher::bench, the adaptive loop's condition fails
AutoExit ==
    /\ pc = "auto"
    /\ ~(count < max_auto_iterations)
    /\ console' = Append(console, <<"After", count>>)
    /\ pc' = "report"
    /\ UNCHANGED <<bencher, locals, op, ret, avgCalls, completed>>

\* FixedIterate taking each measured time as the new calibration offset
FixedIterateRecalibrating(raw) ==
    /\ pc = "fixed"
    /\ count < iterations
    /\ raws' = Append(raws, raw)
    /\ durations' = Append(durations, Sample(raw))
    /\ count' = count + 1
    /\ bench_duration' = raw
    /\ UNCHANGED <<measurements, iterations, max_auto_iterations, writer,
                   pc, name, op, console, ret, avgCalls, completed>>

\* Bencher::bench, one iteration of the fixed loop
FixedIterate(raw) ==
    /\ pc = "fixed"
    /\ count < iterations
    /\ raws' = Append(raws, raw)
    /\ durations' = Append(durations, Sample(raw))
    /\ count' = count + 1
    /\ UNCHANGED <<bencher, pc, name, op, console, ret, avgCalls, completed>>

\* FixedExit with the range 0..iterations - 1
FixedExitOneShort ==
    /\ pc = "fixed"
    /\ ~(count + 1 < iterations)
    /\ pc' = "report"
    /\ UNCHANGED <<bencher, locals, op, console, ret, avgCalls, completed>>

\* Bencher::bench, the fixed loop's range is exhausted
FixedExit ==
    /\ pc = "fixed"
    /\ ~(count < iterations)
    /\ pc' = "report"
    /\ UNCHANGED <<bencher, locals, op, console, ret, avgCalls, completed>>

\* Bencher::bench, println!("Result: {}", durations)
Report ==
    /\ pc = "report"
    /\ avgCalls' = avgCalls + 1
    /\ IF AveragePanics(durations)
       THEN /\ pc' = "panicked"
            /\ ret' = "panic"
            /\ UNCHANGED console
       ELSE /\ pc' = "write"
            /\ console' = Append(console, DisplayBenchVec(durations))
            /\ UNCHANGED ret
    /\ UNCHANGED <<bencher, locals, op, completed>>

\* the record bench formats for the file: name, mean, stddev
Record(n, s) == <<n, Average(s), StandardDeviation(s)>>

\* WriteRecord with the record written twice
WriteRecordTwice(ok) ==
    /\ pc = "write"
    /\ IF writer.attached
       THEN /\ avgCalls' = avgCalls + 1
            /\ writer' = IF ok
                         THEN [writer EXCEPT !.buf = Append(Append(@, Record(name, durations)),
                                                            Record(name, durations))]
                         ELSE writer
       ELSE /\ ok
            /\ UNCHANGED <<writer, avgCalls>>
    /\ pc' = "push"
    /\ UNCHANGED <<measurements, iterations, max_auto_iterations, bench_duration,
                   locals, op, console, ret, completed>>

\* WriteRecord with the result of the write unwrapped: a failed write panics
WriteRecordUnwrap(ok) ==
    /\ pc = "write"
    /\ IF writer.attached
       THEN /\ avgCalls' = avgCalls + 1
            /\ writer' = IF ok
                         THEN [writer EXCEPT !.buf = Append(@, Record(name, durations))]
                         ELSE writer
            /\ pc' = IF ok THEN "push" ELSE "panicked"
            /\ ret' = IF ok THEN ret ELSE "panic"
       ELSE /\ ok
            /\ pc' = "push"
            /\ UNCHANGED <<writer, avgCalls, ret>>
    /\ UNCHANGED <<measurements, iterations, max_auto_iterations, bench_duration,
                   locals, op, console, completed>>

\* Bencher::bench, `let _ = writer.write(...)`: the record is buffered, or the
\* write fails and the error is dropped
WriteRecord(ok) ==
    /\ pc = "write"
    /\ IF writer.attached
       THEN /\ avgCalls' = avgCalls + 1
            /\ writer' = IF ok
                         THEN [writer EXCEPT !.buf = Append(@, Record(name, durations))]
                         ELSE writer
       ELSE /\ ok
            /\ UNCHANGED <<writer, avgCalls>>
    /\ pc' = "push"
    /\ UNCHANGED <<measurements, iterations, max_auto_iterations, bench_duration,
                   locals, op, console, ret, completed>>

\* PushMeasurement with the series inserted at the front of the history
PushMeasurementFront ==
    /\ pc = "push"
    /\ measurements' = <<durations>> \o measurements
    /\ completed' = completed + 1
    /\ pc' = "idle"
    /\ ret' = "self"
    /\ name' = ""
    /\ durations' = <<>>
    /\ raws' = <<>>
    /\ count' = 0
    /\ UNCHANGED <<iterations, max_auto_iterations, bench_duration, writer,
                   op, console, avgCalls>>

\* Bencher::bench, self.measurements.push(durations) and the return
PushMeasurement ==
    /\ pc = "push"
    /\ measurements' = Append(measurements, durations)
    /\ completed' = completed + 1
    /\ pc' = "idle"
    /\ ret' = "self"
    /\ name' = ""
    /\ durations' = <<>>
    /\ raws' = <<>>
    /\ count' = 0
    /\ UNCHANGED <<iterations, max_auto_iterations, bench_duration, writer,
                   op, console, avgCalls>>

\* Compare with the guard len() > 0 and the first series as the right side
CompareFromOne ==
    /\ pc = "idle"
    /\ op' = "compare"
    /\ IF Len(measurements) > 0
       THEN LET left == measurements[Len(measurements)]
                right == measurements[1]
            IN  /\ avgCalls' = 2
                /\ console' = << DisplayDifference(DurationDifferenceNew(left, right)) >>
                /\ ret' = "self"
                /\ UNCHANGED pc
       ELSE /\ console' = <<>>
            /\ ret' = "self"
            /\ avgCalls' = 0
            /\ UNCHANGED pc
    /\ UNCHANGED <<bencher, locals, completed>>

\* Bencher::compare
Compare ==
    /\ pc = "idle"
    /\ op' = "compare"
    /\ IF Len(measurements) > 1
       THEN LET left == measurements[Len(measurements)]
                right == measurements[Len(measurements) - 1]
            IN  /\ avgCalls' = 2
                /\ IF AveragePanics(left) \/ AveragePanics(right)
                   THEN /\ pc' = "panicked"
                        /\ ret' = "panic"
                        /\ console' = <<>>
                   ELSE /\ console' =
                             << DisplayDifference(DurationDifferenceNew(left, right)) >>
                        /\ ret' = "self"
                        /\ UNCHANGED pc
       ELSE /\ console' = <<>>
            /\ ret' = "self"
            /\ avgCalls' = 0
            /\ UNCHANGED pc
    /\ UNCHANGED <<bencher, locals, completed>>

\* Bencher::print_settings
PrintSettings ==
    /\ pc = "idle"
    /\ op' = "print_settings"
    /\ console' =
          << <<"Delay", bench_duration>>,
             IF iterations > 0 THEN <<"Iterations", iterations>> ELSE <<"IterationsAuto">> >>
          \o (IF iterations = 0 THEN << <<"Maximum", max_auto_iterations>> >> ELSE <<>>)
    /\ ret' = "self"
    /\ avgCalls' = 0
    /\ UNCHANGED <<bencher, pc, locals, completed>>

\* Bencher::write_output_to, given a BufWriter on a newly created file (as
\* it_writes_into_files gives it): the writer it replaces is dropped, and the
\* model follows the new file
WriteOutputTo ==
    /\ pc = "idle"
    /\ writer' = [attached |-> TRUE, buf |-> <<>>, file |-> <<>>, attachedAt |-> completed]
    /\ op' = "write_output_to"
    /\ console' = <<>>
    /\ ret' = "self"
    /\ avgCalls' = 0
    /\ UNCHANGED <<measurements, iterations, max_auto_iterations, bench_duration,
                   pc, locals, completed>>

\* Flush with the writer's result dropped: Ok whatever was written
FlushIgnoringError(written) ==
    /\ pc = "idle"
    /\ IF writer.attached
       THEN /\ written \in 0..Len(writer.buf)
            /\ writer' = [writer EXCEPT
                            !.file = @ \o SubSeq(writer.buf, 1, written),
                            !.buf = SubSeq(@, written + 1, Len(@))]
            /\ ret' = "Ok"
       ELSE /\ written = 0
            /\ ret' = "Ok"
            /\ UNCHANGED writer
    /\ op' = "flush"
    /\ console' = <<>>
    /\ avgCalls' = 0
    /\ UNCHANGED <<measurements, iterations, max_auto_iterations, bench_duration,
                   pc, locals, completed>>

\* Bencher::flush.  BufWriter::flush writes the buffer out and then flushes the
\* File, which does nothing: it can fail only while records are being written,
\* after `written` of them are out.
Flush(written) ==
    /\ pc = "idle"
    /\ IF writer.attached
       THEN /\ written \in 0..Len(writer.buf)
            /\ writer' = [writer EXCEPT
                            !.file = @ \o SubSeq(writer.buf, 1, written),
                            !.buf = SubSeq(@, written + 1, Len(@))]
            /\ ret' = IF written = Len(writer.buf) THEN "Ok" ELSE "Err"
       ELSE /\ written = 0
            /\ ret' = "Ok"
            /\ UNCHANGED writer
    /\ op' = "flush"
    /\ console' = <<>>
    /\ avgCalls' = 0
    /\ UNCHANGED <<measurements, iterations, max_auto_iterations, bench_duration,
                   pc, locals, completed>>

----------------------------------------------------------------------------
(* The program: any sequence of calls on one Bencher *)

\* the bench calls the model follows: at most maxHistory of them, with at most
\* maxIterations (fixed) or maxCap (adaptive) runs of the loop
InBounds(maxIterations, maxCap, maxHistory) ==
    /\ Len(measurements) < maxHistory
    /\ IF iterations = 0 THEN max_auto_iterations <= maxCap
                          ELSE iterations <= maxIterations

Calls(maxIterations, maxCap, maxHistory, rawSet) ==
    \/ \E n \in 0..maxIterations : SetIterations(n)
    \/ \E n \in 0..maxCap : SetMaxIterations(n)
    \/ \E n \in Names : InBounds(maxIterations, maxCap, maxHistory) /\ BenchStart(n)
    \/ \E raw \in rawSet : AutoIterate(raw)
    \/ AutoExit
    \/ \E raw \in rawSet : FixedIterate(raw)
    \/ FixedExit
    \/ Report
    \/ \E ok \in BOOLEAN : WriteRecord(ok)
    \/ PushMeasurement
    \/ Compare
    \/ PrintSettings
    \/ WriteOutputTo
    \/ \E written \in 0..Len(writer.buf) : Flush(written)

\* any calls on one Bencher, up to MaxHistory bench calls with short loops
Init == New(CalibrationRawSet)
Next == Calls(MaxIterations, MaxCap, MaxHistory, RawSet)
Spec == Init /\ [][Next]_vars

\* any calls on one Bencher around a single bench call with longer loops
InitBench == New(BenchCalibrationRawSet)
NextBench == Calls(BenchMaxIterations, BenchMaxCap, 1, BenchRawSet)
SpecBench == InitBench /\ [][NextBench]_vars

\* the steps of a bench call in progress.  bench runs on its caller's thread
\* with nothing to wait for: while a step of the call is possible, the thread
\* takes one, provided each func() call returns
BenchSteps ==
    \/ \E raw \in BenchRawSet : AutoIterate(raw)
    \/ AutoExit
    \/ \E raw \in BenchRawSet : FixedIterate(raw)
    \/ FixedExit
    \/ Report
    \/ \E ok \in BOOLEAN : WriteRecord(ok)
    \/ PushMeasurement
SpecBenchFair == SpecBench /\ WF_vars(BenchSteps)

\* one adaptive bench call with the cap of it_benches_automatically, on a
\* closure that takes the same time at every call
NextConstant ==
    \/ SetIterations(0)
    \/ SetMaxIterations(ConstantCap)
    \/ \E n \in Names :
          /\ completed = 0
          /\ iterations = 0
          /\ max_auto_iterations = ConstantCap
          /\ BenchStart(n)
    \/ \E raw \in ConstantRawSet :
          /\ raw = IF raws = <<>> THEN raw ELSE raws[Len(raws)]
          /\ AutoIterate(raw)
    \/ AutoExit
    \/ Report
    \/ WriteRecord(TRUE)
    \/ PushMeasurement
SpecConstant == InitBench /\ [][NextConstant]_vars

\* any calls on one Bencher around a single bench call, which may be the bench
\* call of a Bencher as constructed (100 runs of a closure that takes the same
\* time at every call)
NextDefault ==
    \/ Calls(MaxIterations, MaxCap, 1, DefaultRawSet)
    \/ \E n \in Names :
          /\ Len(measurements) < 1
          /\ iterations = DefaultIterations
          /\ BenchStart(n)
SpecDefault == Init /\ [][NextDefault]_vars

\* the series of up to n durations that BenchVec::from_vec can be given
SeriesUpTo(n) == UNION {[1..k -> CompareValues] : k \in 0..n}

\* two series a and b built with BenchVec::from_vec, held as measurements[1]
\* and measurements[2]; no Bencher call is made on them
InitCompare ==
    /\ measurements \in {<<a, b>> : a \in SeriesUpTo(MaxSeriesLen), b \in SeriesUpTo(MaxSeriesLen)}
    /\ iterations = DefaultIterations
    /\ max_auto_iterations = DefaultMaxAutoIterations
    /\ bench_duration = 0
    /\ writer = NoWriter
    /\ pc = "idle"
    /\ name = ""
    /\ durations = <<>>
    /\ count = 0
    /\ raws = <<>>
    /\ op = "from_vec"
    /\ console = <<>>
    /\ ret = "self"
    /\ avgCalls = 0
    /\ completed = 0

\* a.compare(b): both averages are evaluated first, and either panics on an
\* empty series
CallBenchVecCompare ==
    /\ pc = "idle"
    /\ op' = "BenchVec::compare"
    /\ avgCalls' = 2
    /\ IF AveragePanics(measurements[1]) \/ AveragePanics(measurements[2])
       THEN /\ pc' = "panicked"
            /\ ret' = "panic"
       ELSE /\ ret' = BenchVecCompare(measurements[1], measurements[2])
            /\ UNCHANGED pc
    /\ UNCHANGED <<bencher, locals, console, completed>>

\* DurationDifference::new(&a, &b)
CallDurationDifferenceNew ==
    /\ pc = "idle"
    /\ op' = "DurationDifference::new"
    /\ avgCalls' = 2
    /\ IF AveragePanics(measurements[1]) \/ AveragePanics(measurements[2])
       THEN /\ pc' = "panicked"
            /\ ret' = "panic"
       ELSE /\ ret' = DurationDifferenceNew(measurements[1], measurements[2])
            /\ UNCHANGED pc
    /\ UNCHANGED <<bencher, locals, console, completed>>

NextCompare ==
    \/ CallBenchVecCompare
    \/ CallDurationDifferenceNew
SpecCompare == InitCompare /\ [][NextCompare]_vars

----------------------------------------------------------------------------
(* Properties *)

\* the bench call has left its loop
AfterLoop == op = "bench" /\ pc \in {"report", "write", "push", "panicked"}

\* the series s has at least 2 samples and its coefficient of variation is below 0.01
Converged(s) == Len(s) >= 2 /\ CvBelowThreshold(s)

\* the mean of a non-empty series, truncated to the nanosecond
Mean(s) == Sum(s) \div Len(s)

\* C1: in fixed mode (iterations = N > 0) the bench call that returns has
\* invoked the operation exactly N times, and the series it appends to the
\* history holds exactly N samples, whatever the measured durations are.
C1_FixedRunsExactlyN ==
    [][(pc = "push" /\ pc' = "idle" /\ iterations # 0) =>
          /\ Len(raws) = iterations
          /\ Len(measurements') = Len(measurements) + 1
          /\ Len(measurements'[Len(measurements')]) = iterations]_vars

\* a fixed-mode bench call of 3 runs has returned
C1_Witness ==
    /\ op = "bench" /\ pc = "idle"
    /\ iterations = 3
    /\ Len(measurements) = 1 /\ Len(measurements[1]) = 3

\* C2, as claimed: an adaptive bench call collects between 2 and
\* max_auto_iterations samples, for every cap.
C2_BetweenTwoAndCap ==
    (AfterLoop /\ iterations = 0) =>
        (2 <= Len(durations) /\ Len(durations) <= max_auto_iterations)

\* C2, amended: an adaptive bench call collects at most max_auto_iterations
\* samples, and at least 2 of them or, under a cap below 2, as many as the cap.
C2_BetweenMinAndCap ==
    (AfterLoop /\ iterations = 0) =>
        /\ Len(durations) <= max_auto_iterations
        /\ Len(durations) >= (IF max_auto_iterations < 2 THEN max_auto_iterations ELSE 2)

\* an adaptive bench call has stopped before its cap
C2_Witness ==
    /\ AfterLoop /\ iterations = 0
    /\ Len(durations) >= 2
    /\ Len(durations) < max_auto_iterations

\* C3, as claimed: the adaptive loop runs on only while no iteration has left
\* at least 2 samples with a coefficient of variation below 0.01; it ends at
\* the first such iteration, or else when the samples reach the cap.
C3_StopsAtFirstConvergence ==
    /\ (op = "bench" /\ pc = "auto" /\ count < max_auto_iterations) =>
           ~Converged(durations)
    /\ (AfterLoop /\ iterations = 0) =>
           /\ \A k \in 1..(Len(durations) - 1) : ~Converged(SubSeq(durations, 1, k))
           /\ Converged(durations) \/ Len(durations) = max_auto_iterations

\* C4: in both modes every recorded sample is raw - calibration when the raw
\* time is strictly above the calibration offset and the raw time otherwise
\* (also at raw = calibration), and is never negative.
C4_SamplesCorrected ==
    /\ Len(durations) = Len(raws)
    /\ \A i \in 1..Len(raws) :
          /\ raws[i] > bench_duration => durations[i] + bench_duration = raws[i]
          /\ raws[i] <= bench_duration => durations[i] = raws[i]
          /\ durations[i] >= 0

\* an adaptive run has measured a raw time below, one at and one above the offset
C4_Witness ==
    /\ AfterLoop /\ iterations = 0
    /\ \E i, j, k \in 1..Len(raws) :
          /\ raws[i] < bench_duration
          /\ raws[j] = bench_duration
          /\ raws[k] > bench_duration

C6_CompareWithoutTwo ==
    [][(pc = "idle" /\ op' = "compare" /\ Len(measurements) < 2) =>
          /\ UNCHANGED <<measurements, iterations, max_auto_iterations,
                         bench_duration, writer>>
          /\ console' = <<>>
          /\ avgCalls' = 0
          /\ ret' = "self"
          /\ pc' = "idle"]_vars

\* compare() has returned on a Bencher with one recorded benchmark and a sink
C6_Witness ==
    /\ op = "compare" /\ pc = "idle"
    /\ Len(measurements) = 1
    /\ writer.attached
    /\ console = <<>>

\* C7, as claimed: after write_output_to, at least one bench call whose record
\* was written, and a successful flush that left no record behind, the file
\* holds the head marker and more than the marker.
C7_FileHoldsHead ==
    (/\ op = "flush" /\ ret = "Ok"
     /\ writer.attached /\ completed > writer.attachedAt
     /\ Len(writer.file) = completed - writer.attachedAt) =>
        /\ \E i \in 1..Len(writer.file) : writer.file[i] = BENCH_FILE_HEAD
        /\ Len(writer.file) > 1

\* C8: every bench call that returns appends exactly its series at the end of
\* the history, no other step of any operation changes the history, and the
\* history is as long as the number of bench calls that returned.
C8_HistoryGrowsByBench ==
    /\ [](Len(measurements) = completed)
    /\ [][IF pc = "push" /\ pc' = "idle"
           THEN /\ measurements' = Append(measurements, durations)
                /\ completed' = completed + 1
           ELSE /\ measurements' = measurements
                /\ completed' = completed]_vars

\* two different series are in the history, and a later call has returned
C8_Witness ==
    /\ completed = 2 /\ Len(measurements) = 2
    /\ Mean(measurements[1]) < Mean(measurements[2])
    /\ op = "flush" /\ ret = "Err"

\* C9, as claimed: no bench call, whatever set_iterations and
\* set_max_iterations were given, evaluates the mean of an empty series.
C9_NoMeanOfEmptySeries ==
    /\ pc # "panicked"
    /\ (AfterLoop /\ pc # "panicked") => ~AveragePanics(durations)

\* C10, as claimed: under the cap 1000 an adaptive bench call on a closure whose
\* samples are all equal stops in single digits of iterations, below the cap.
C10_ConstantStopsInSingleDigits ==
    (op = "bench" /\ iterations = 0 /\ max_auto_iterations = ConstantCap) =>
        /\ Len(raws) <= 9
        /\ count < ConstantCap

\* the records the sink has taken, those in the file before those still buffered
Records == writer.file \o writer.buf

\* C11, as claimed: while a sink is attached, the records in it are as many as
\* the bench calls that returned since it was attached.
C11_OneRecordPerBench ==
    (writer.attached /\ pc = "idle") => Len(Records) = completed - writer.attachedAt

\* C11, amended: with a sink attached a bench call emits at most one record,
\* its own (name, mean, stddev), at the end of the sink's records, in the step
\* after its samples are all collected and before its series is appended to the
\* history (the record is missing when the write fails); no other step adds,
\* removes or reorders records, and write_output_to starts an empty sink; the
\* records are never more than the bench calls since the sink was attached;
\* with no sink attached, bench emits nothing.
C11_AtMostOneRecordPerBench ==
    /\ [](writer.attached =>
             Len(Records) <= completed - writer.attachedAt + (IF pc = "push" THEN 1 ELSE 0))
    /\ [](~writer.attached => writer = NoWriter)
    /\ [][IF pc = "write"
          THEN /\ pc' = "push"
               /\ UNCHANGED <<durations, measurements, completed>>
               /\ writer.attached =>
                     \/ writer'.file \o writer'.buf = Append(Records, Record(name, durations))
                     \/ writer'.file \o writer'.buf = Records
               /\ ~writer.attached => writer' = writer
          ELSE IF op' = "write_output_to" /\ writer' # writer
          THEN writer'.file \o writer'.buf = <<>>
          ELSE writer'.file \o writer'.buf = Records]_vars

\* two bench calls with different results have returned since the sink was
\* attached, and the sink holds their two records in the order of the calls
C11_Witness ==
    /\ pc = "idle" /\ writer.attached /\ writer.attachedAt = 0
    /\ completed = 2
    /\ Len(Records) = 2
    /\ Records[1] = Record("lol", measurements[1])
    /\ Records[2] = Record("lol", measurements[2])
    /\ Records[1] # Records[2]

\* C12: a failed write of the record does not abort the bench call: the step
\* leaves the series, the history and the configuration as they are and goes on
\* to the push, the push appends the series and the call returns normally;
\* a bench call panics only on an empty series, never on a write; so what later
\* bench and compare calls read is what it is after a successful write.
C12_FailedWriteDoesNotAbort ==
    /\ [](pc = "panicked" => (op = "bench" /\ AveragePanics(durations)))
    /\ [][(pc = "write" /\ writer.attached /\ writer' = writer) =>
             /\ pc' = "push"
             /\ ret' = "running"
             /\ UNCHANGED <<measurements, iterations, max_auto_iterations,
                            bench_duration, durations, name, completed>>]_vars
    /\ [][(pc = "push") =>
             /\ measurements' = Append(measurements, durations)
             /\ pc' = "idle"
             /\ ret' = "self"
             /\ UNCHANGED <<iterations, max_auto_iterations, bench_duration>>]_vars

\* both bench calls since the sink was attached failed to write their record,
\* both series are in the history and compare has printed their difference
C12_Witness ==
    /\ pc = "idle" /\ op = "compare" /\ ret = "self"
    /\ writer.attached /\ writer.attachedAt = 0
    /\ completed = 2 /\ Len(measurements) = 2
    /\ Records = <<>>
    /\ Len(console) = 1

\* C13: flush() with no sink attached returns Ok and changes nothing; with a
\* sink attached it writes the buffered records out in order and returns Ok
\* when all of them are out and the sink's error when they are not (no record
\* is lost or reordered either way); in every case it leaves history,
\* iteration count, cap and calibration offset unchanged.
C13_FlushReportsFailure ==
    [][(pc = "idle" /\ op' = "flush") =>
          /\ UNCHANGED <<measurements, iterations, max_auto_iterations, bench_duration>>
          /\ pc' = "idle"
          /\ ~writer.attached => (ret' = "Ok" /\ writer' = writer)
          /\ writer.attached =>
                /\ writer'.attached
                /\ writer'.file \o writer'.buf = Records
                /\ Len(writer'.file) >= Len(writer.file)
                /\ ret' \in {"Ok", "Err"}
                /\ ret' = "Ok" <=> writer'.buf = <<>>]_vars

\* a flush has failed with one record written out and one still buffered
C13_Witness ==
    /\ op = "flush" /\ ret = "Err"
    /\ writer.attached
    /\ Len(writer.file) = 1 /\ Len(writer.buf) = 1

\* the sum of a series, added up from the left
RECURSIVE Total(_)
Total(s) == IF s = <<>> THEN 0 ELSE Total(SubSeq(s, 1, Len(s) - 1)) + s[Len(s)]

\* C14: the mean of an empty series fails explicitly (the division by zero
\* panics) and yields no number; for every non-empty series the mean is the sum
\* divided by the number of samples, truncated to the nanosecond.  Checked where
\* bench evaluates the mean of its series for the console.
C14_MeanFailsOnEmpty ==
    [][(pc = "report") =>
          /\ durations = <<>> =>
                /\ pc' = "panicked"
                /\ ret' = "panic"
                /\ console' = console
          /\ durations # <<>> =>
                /\ pc' = "write"
                /\ Len(console') = Len(console) + 1
                /\ LET line == console'[Len(console')]
                       m == line[2]
                   IN  /\ line[1] = "Result"
                       /\ m * Len(durations) <= Total(durations)
                       /\ Total(durations) < (m + 1) * Len(durations)]_vars

\* an adaptive bench call under the cap 0 has evaluated the mean of its empty
\* series and panicked
C14_Witness ==
    /\ pc = "panicked" /\ ret = "panic"
    /\ durations = <<>>
    /\ avgCalls = 1

\* C15: an adaptive bench call under a cap of at least 2 invokes the operation
\* more than once, whatever the measured durations are: the loop is never left
\* after a single invocation.
C15_AdaptiveInvokesMoreThanOnce ==
    (AfterLoop /\ iterations = 0 /\ max_auto_iterations >= 2) =>
        (Len(raws) > 1 /\ count > 1)

\* an adaptive bench call under the cap 2 has left its loop
C15_Witness ==
    /\ AfterLoop /\ iterations = 0
    /\ max_auto_iterations = 2
    /\ Len(raws) = 2

\* C16: a Bencher as constructed has the iteration count 100 (and the cap
\* 10000); only set_iterations changes the iteration count and only
\* set_max_iterations changes the cap; a bench call enters the adaptive loop
\* exactly when the iteration count in force at its start is 0 and the fixed
\* loop otherwise; a fixed bench call runs the operation exactly `iterations`
\* times under every cap and reports no "After" line.
C16_ModeFollowsIterations ==
    /\ [](op = "new" =>
             (iterations = DefaultIterations /\ max_auto_iterations = DefaultMaxAutoIterations))
    /\ [](pc = "auto" => iterations = 0)
    /\ [](pc = "fixed" => (iterations > 0 /\ count <= iterations))
    /\ [][iterations' # iterations => (pc = "idle" /\ op' = "set_iterations")]_vars
    /\ [][max_auto_iterations' # max_auto_iterations =>
             (pc = "idle" /\ op' = "set_max_iterations")]_vars
    /\ [][(pc = "idle" /\ op' = "bench" /\ pc' # "idle") =>
             pc' = (IF iterations = 0 THEN "auto" ELSE "fixed")]_vars
    /\ [][(pc = "push" /\ pc' = "idle" /\ iterations # 0) =>
             /\ Len(raws) = iterations
             /\ measurements' = Append(measurements, durations)
             /\ Len(durations) = iterations
             /\ \A i \in 1..Len(console) : console[i][1] # "After"]_vars

\* the bench call of a Bencher whose iteration count was never set has run the
\* operation 100 times, under a cap set to 0
C16_Witness ==
    /\ op = "bench" /\ pc = "push"
    /\ iterations = DefaultIterations
    /\ max_auto_iterations = 0
    /\ Len(raws) = DefaultIterations

\* C17, as claimed: a bench call that has started leaves its loop after at most
\* `iterations` (fixed) or max_auto_iterations (adaptive) invocations and then
\* returns with its series appended to the history, provided every invocation
\* of the operation returns.
C17_BenchRunsToCompletion ==
    /\ [](pc = "fixed" => Len(raws) <= iterations)
    /\ [](pc = "auto" => Len(raws) <= max_auto_iterations)
    /\ (pc \in {"auto", "fixed"}) ~> (pc = "idle" /\ Len(measurements) = completed
                                                   /\ completed > 0)

\* C18: the calibration offset is the one computed at construction (the mean of
\* the calibration loop's measurements) and no step of any call changes it, so
\* every sample of a bench run is its raw time corrected by that one offset.
C18_CalibrationOffsetFixed ==
    /\ [](bench_duration \in BenchCalibrationRawSet)
    /\ [][bench_duration' = bench_duration]_vars
    /\ [](\A i \in 1..Len(durations) :
             durations[i] = (IF raws[i] > bench_duration THEN raws[i] - bench_duration
                                                          ELSE raws[i]))

\* after set_iterations, set_max_iterations and write_output_to, a fixed bench
\* call has corrected two raw times above the offset and one below it, and
\* flush has returned
C18_Witness ==
    /\ op = "flush" /\ completed = 1
    /\ writer.attached
    /\ iterations = 3 /\ max_auto_iterations # DefaultMaxAutoIterations
    /\ bench_duration = 20
    /\ measurements[1] = <<49980, 10, 49980>>

\* C19, as claimed: the count an adaptive bench call reports in its "After N
\* iterations" line is the number of invocations of the operation and the
\* number of samples in its series, on convergence as at the cap.
C19_ReportedCountIsSamples ==
    (AfterLoop /\ iterations = 0) =>
        /\ Len(raws) = Len(durations)
        /\ \E i \in 1..Len(console) : console[i] = <<"After", Len(durations)>>

\* C20: for non-empty series a and b, a.compare(b) and
\* DurationDifference::new(&a, &b) return the same magnitude and sign, which are
\* |mean(a) - mean(b)| and mean(a) > mean(b); with the arguments swapped the
\* magnitude is the same and the sign is the opposite exactly when the means
\* differ, and with equal means both orders give zero and the non-positive sign.
C20_CompareIsDurationDifferenceNew ==
    LET a == measurements[1]
        b == measurements[2]
    IN  (pc = "idle" /\ op \in {"BenchVec::compare", "DurationDifference::new"}) =>
            /\ a # <<>> /\ b # <<>>
            /\ ret = (IF op = "BenchVec::compare" THEN DurationDifferenceNew(a, b)
                                                    ELSE BenchVecCompare(a, b))
            /\ ret.inner = (IF Mean(a) > Mean(b) THEN Mean(a) - Mean(b) ELSE Mean(b) - Mean(a))
            /\ ret.positive = (Mean(a) > Mean(b))
            /\ LET swapped == IF op = "BenchVec::compare" THEN BenchVecCompare(b, a)
                                                           ELSE DurationDifferenceNew(b, a)
               IN  /\ swapped.inner = ret.inner
                   /\ (swapped.positive # ret.positive) <=> (Mean(a) # Mean(b))
                   /\ Mean(a) = Mean(b) =>
                         (ret.inner = 0 /\ ~ret.positive /\ ~swapped.positive)

\* a.compare(b) has returned for two different series whose means are equal
\* after truncation
C20_Witness ==
    /\ pc = "idle" /\ op = "BenchVec::compare"
    /\ measurements = << <<10, 21>>, <<15>> >>
    /\ ret = [inner |-> 0, positive |-> FALSE]

=============================================================================
